---- MODULE Spec2Model ----
(***************************************************************************)
(* A model of the interactive object graph (ObjectGraph) and of the part   *)
(* of its parent (ObjectDatabase) that feeds it: the layout of the object  *)
(* collection, the merge of the drag overrides, the reachability           *)
(* highlight, the edges of the render pass and the pointer handlers.       *)
(*                                                                         *)
(* A JavaScript Map<string, NodePosition> is a sequence of NodePosition    *)
(* records in insertion order, the key of an entry being its hash field.   *)
(* The empty string stands for a falsy string (undefined, null or '').     *)
(***************************************************************************)
EXTENDS Integers, Sequences, FiniteSets, TLC

(***************************************************************************)
(* Layout constants.                                                       *)
(***************************************************************************)
NODE_RADIUS == 20
ROW_HEIGHT == 70
COL_WIDTH_COMMIT == 150
COL_START_OBJECTS == 300
DEPTH_INDENT == 120
NODE_TO_LABELS_GAP == 30
TAG_OFFSET_X == 80
MOVE_THRESHOLD == 1
PAN_START == 50

(***************************************************************************)
(* Git objects.  One record shape for the four interfaces; a field an      *)
(* interface does not have is empty.                                       *)
(***************************************************************************)
CommitObject(h, t, p) ==
    [hash |-> h, type |-> "commit", tree |-> t, parent |-> p,
     entries |-> <<>>, objectHash |-> ""]

TreeObject(h, es) ==
    [hash |-> h, type |-> "tree", tree |-> "", parent |-> <<>>,
     entries |-> es, objectHash |-> ""]

BlobObject(h) ==
    [hash |-> h, type |-> "blob", tree |-> "", parent |-> <<>>,
     entries |-> <<>>, objectHash |-> ""]

\* An object of a kind the interfaces do not name.
OtherObject(h) ==
    [hash |-> h, type |-> "other", tree |-> "", parent |-> <<>>,
     entries |-> <<>>, objectHash |-> ""]

TagObject(h, t) ==
    [hash |-> h, type |-> "tag", tree |-> "", parent |-> <<>>,
     entries |-> <<>>, objectHash |-> t]

NodePosition(px, py, h, t, d) ==
    [x |-> px, y |-> py, hash |-> h, type |-> t, depth |-> d]

(***************************************************************************)
(* Map<string, NodePosition> as a sequence in insertion order.             *)
(***************************************************************************)
MapKeys(m) == {m[i].hash : i \in DOMAIN m}

MapHas(m, k) == \E i \in DOMAIN m : m[i].hash = k

MapGet(m, k) == m[CHOOSE i \in DOMAIN m : m[i].hash = k]

\* A set that never replaces: the entry always goes last.
MapSetAppend(m, k, v) == Append(m, v)

\* Map.set: an existing key keeps its place, a new key goes last.
MapSet(m, k, v) ==
    IF MapHas(m, k)
    THEN [i \in DOMAIN m |-> IF m[i].hash = k THEN v ELSE m[i]]
    ELSE Append(m, v)

(***************************************************************************)
(* objectMap = new Map(objects.map((o) => [o.hash, o])): the last object   *)
(* carrying a hash wins.                                                   *)
(***************************************************************************)
ObjectMapHas(objects, h) == \E i \in DOMAIN objects : objects[i].hash = h

ObjectMapGet(objects, h) ==
    objects[CHOOSE i \in DOMAIN objects :
                /\ objects[i].hash = h
                /\ \A j \in DOMAIN objects : j > i => objects[j].hash # h]

IsCommit(o) == o.type = "commit"
IsTree(o) == o.type = "tree"
IsBlob(o) == o.type = "blob"
IsTag(o) == o.type = "tag"

\* The tags whose target is an object of the collection.
TagsWithTarget(objects) ==
    SelectSeq(objects, LAMBDA o : o.type = "tag" /\ ObjectMapHas(objects, o.objectHash))

Commits(objects) == SelectSeq(objects, IsCommit)
Trees(objects) == SelectSeq(objects, IsTree)
Blobs(objects) == SelectSeq(objects, IsBlob)
Tags(objects) == SelectSeq(objects, IsTag)

(***************************************************************************)
(* Step A of the layout: the depth of trees and blobs, breadth first from  *)
(* the root tree of every commit.                                          *)
(***************************************************************************)
RECURSIVE DepthSeed(_, _)
DepthSeed(commits, i) ==
    IF i > Len(commits) THEN <<>>
    ELSE (IF commits[i].tree # ""
          THEN <<[hash |-> commits[i].tree, depth |-> 0]>>
          ELSE <<>>) \o DepthSeed(commits, i + 1)

DepthInit(objects) ==
    [queue |-> DepthSeed(Commits(objects), 1), visited |-> {}, depthMap |-> <<>>]

\* The iteration that does not mark the commits' trees as visited.
DepthStepRootsUnmarked(objects, st) ==
    LET item == Head(st.queue)
        rest == Tail(st.queue)
    IN  IF item.hash \in st.visited
        THEN [st EXCEPT !.queue = rest]
        ELSE LET dm == IF item.hash \in DOMAIN st.depthMap
                       THEN st.depthMap
                       ELSE st.depthMap @@ (item.hash :> item.depth)
                 es == IF /\ ObjectMapHas(objects, item.hash)
                          /\ ObjectMapGet(objects, item.hash).type = "tree"
                       THEN ObjectMapGet(objects, item.hash).entries
                       ELSE <<>>
             IN  [queue |-> rest \o [i \in 1..Len(es) |->
                                        [hash |-> es[i], depth |-> item.depth + 1]],
                  visited |-> IF item.depth = 0 THEN st.visited
                              ELSE st.visited \cup {item.hash},
                  depthMap |-> dm]

\* The iteration taking the entries before what was already queued.
DepthStepEntriesFirst(objects, st) ==
    LET item == Head(st.queue)
        rest == Tail(st.queue)
    IN  IF item.hash \in st.visited
        THEN [st EXCEPT !.queue = rest]
        ELSE LET dm == IF item.hash \in DOMAIN st.depthMap
                       THEN st.depthMap
                       ELSE st.depthMap @@ (item.hash :> item.depth)
                 es == IF /\ ObjectMapHas(objects, item.hash)
                          /\ ObjectMapGet(objects, item.hash).type = "tree"
                       THEN ObjectMapGet(objects, item.hash).entries
                       ELSE <<>>
             IN  [queue |-> [i \in 1..Len(es) |->
                                [hash |-> es[i], depth |-> item.depth + 1]] \o rest,
                  visited |-> st.visited \cup {item.hash},
                  depthMap |-> dm]

\* One iteration of the while loop; st.queue is not empty.
DepthStep(objects, st) ==
    LET item == Head(st.queue)
        rest == Tail(st.queue)
    IN  IF item.hash \in st.visited
        THEN [st EXCEPT !.queue = rest]
        ELSE LET dm == IF item.hash \in DOMAIN st.depthMap
                       THEN st.depthMap
                       ELSE st.depthMap @@ (item.hash :> item.depth)
                 es == IF /\ ObjectMapHas(objects, item.hash)
                          /\ ObjectMapGet(objects, item.hash).type = "tree"
                       THEN ObjectMapGet(objects, item.hash).entries
                       ELSE <<>>
             IN  [queue |-> rest \o [i \in 1..Len(es) |->
                                        [hash |-> es[i], depth |-> item.depth + 1]],
                  visited |-> st.visited \cup {item.hash},
                  depthMap |-> dm]

RECURSIVE DepthLoop(_, _)
DepthLoop(objects, st) ==
    IF st.queue = <<>> THEN st ELSE DepthLoop(objects, DepthStep(objects, st))

DepthMap(objects) == DepthLoop(objects, DepthInit(objects)).depthMap

(***************************************************************************)
(* Step B of the layout: coordinates, one pass per kind.                   *)
(***************************************************************************)
RECURSIVE PlaceCommits(_, _, _)
PlaceCommits(positionMap, commits, i) ==
    IF i > Len(commits) THEN positionMap
    ELSE PlaceCommits(
             MapSet(positionMap, commits[i].hash,
                    NodePosition(COL_WIDTH_COMMIT,
                                 (i - 1) * ROW_HEIGHT + NODE_TO_LABELS_GAP,
                                 commits[i].hash, "commit", -1)),
             commits, i + 1)

RECURSIVE PlaceTrees(_, _, _, _)
PlaceTrees(positionMap, trees, depthMap, i) ==
    IF i > Len(trees) THEN positionMap
    ELSE LET h == trees[i].hash
             depth == IF h \in DOMAIN depthMap THEN depthMap[h] ELSE 0
         IN  PlaceTrees(
                 MapSet(positionMap, h,
                        NodePosition(COL_START_OBJECTS + depth * DEPTH_INDENT,
                                     (i - 1) * ROW_HEIGHT + NODE_TO_LABELS_GAP,
                                     h, "tree", depth)),
                 trees, depthMap, i + 1)

\* The blob pass that starts at the first row.
RECURSIVE PlaceBlobsNoOffset(_, _, _, _, _)
PlaceBlobsNoOffset(positionMap, blobs, nTrees, depthMap, i) ==
    IF i > Len(blobs) THEN positionMap
    ELSE LET h == blobs[i].hash
             depth == IF h \in DOMAIN depthMap THEN depthMap[h] ELSE 1
         IN  PlaceBlobsNoOffset(
                 MapSet(positionMap, h,
                        NodePosition(COL_START_OBJECTS + depth * DEPTH_INDENT,
                                     (i - 1) * ROW_HEIGHT + NODE_TO_LABELS_GAP,
                                     h, "blob", depth)),
                 blobs, nTrees, depthMap, i + 1)

\* The blob pass with the default depth of the tree pass.
RECURSIVE PlaceBlobsDefaultZero(_, _, _, _, _)
PlaceBlobsDefaultZero(positionMap, blobs, nTrees, depthMap, i) ==
    IF i > Len(blobs) THEN positionMap
    ELSE LET h == blobs[i].hash
             startY == nTrees * ROW_HEIGHT
             depth == IF h \in DOMAIN depthMap THEN depthMap[h] ELSE 0
         IN  PlaceBlobsDefaultZero(
                 MapSet(positionMap, h,
                        NodePosition(COL_START_OBJECTS + depth * DEPTH_INDENT,
                                     startY + (i - 1) * ROW_HEIGHT + NODE_TO_LABELS_GAP,
                                     h, "blob", depth)),
                 blobs, nTrees, depthMap, i + 1)

RECURSIVE PlaceBlobs(_, _, _, _, _)
PlaceBlobs(positionMap, blobs, nTrees, depthMap, i) ==
    IF i > Len(blobs) THEN positionMap
    ELSE LET h == blobs[i].hash
             startY == nTrees * ROW_HEIGHT
             depth == IF h \in DOMAIN depthMap THEN depthMap[h] ELSE 1
         IN  PlaceBlobs(
                 MapSet(positionMap, h,
                        NodePosition(COL_START_OBJECTS + depth * DEPTH_INDENT,
                                     startY + (i - 1) * ROW_HEIGHT + NODE_TO_LABELS_GAP,
                                     h, "blob", depth)),
                 blobs, nTrees, depthMap, i + 1)

\* The tag pass that anchors no tag to a tag.
RECURSIVE PlaceTagsNotToTags(_, _, _, _)
PlaceTagsNotToTags(positionMap, tags, objects, i) ==
    IF i > Len(tags) THEN positionMap
    ELSE LET tag == tags[i]
             anchored == /\ ObjectMapHas(objects, tag.objectHash)
                         /\ MapHas(positionMap, tag.objectHash)
                         /\ MapGet(positionMap, tag.objectHash).type # "tag"
             baseX == IF anchored
                      THEN MapGet(positionMap, tag.objectHash).x - TAG_OFFSET_X
                      ELSE COL_START_OBJECTS
             baseY == IF anchored
                      THEN MapGet(positionMap, tag.objectHash).y
                      ELSE (i - 1) * ROW_HEIGHT + NODE_TO_LABELS_GAP
         IN  PlaceTagsNotToTags(
                 MapSet(positionMap, tag.hash,
                        NodePosition(baseX, baseY, tag.hash, "tag", 0)),
                 tags, objects, i + 1)

RECURSIVE PlaceTags(_, _, _, _)
PlaceTags(positionMap, tags, objects, i) ==
    IF i > Len(tags) THEN positionMap
    ELSE LET tag == tags[i]
             anchored == /\ ObjectMapHas(objects, tag.objectHash)
                         /\ MapHas(positionMap, tag.objectHash)
             baseX == IF anchored
                      THEN MapGet(positionMap, tag.objectHash).x - TAG_OFFSET_X
                      ELSE COL_START_OBJECTS
             baseY == IF anchored
                      THEN MapGet(positionMap, tag.objectHash).y
                      ELSE (i - 1) * ROW_HEIGHT + NODE_TO_LABELS_GAP
         IN  PlaceTags(
                 MapSet(positionMap, tag.hash,
                        NodePosition(baseX, baseY, tag.hash, "tag", 0)),
                 tags, objects, i + 1)

DefaultPositions(objects) ==
    LET depthMap == DepthMap(objects)
        p1 == PlaceCommits(<<>>, Commits(objects), 1)
        p2 == PlaceTrees(p1, Trees(objects), depthMap, 1)
        p3 == PlaceBlobs(p2, Blobs(objects), Len(Trees(objects)), depthMap, 1)
    IN  PlaceTags(p3, Tags(objects), objects, 1)

(***************************************************************************)
(* nodePositions: the drag overrides merged on top of the layout.          *)
(***************************************************************************)
RECURSIVE MergeOverrides(_, _, _, _)
MergeOverrides(merged, validHashes, overrides, i) ==
    IF i > Len(overrides) THEN merged
    ELSE MergeOverrides(
             IF overrides[i].hash \in validHashes
             THEN MapSet(merged, overrides[i].hash, overrides[i])
             ELSE merged,
             validHashes, overrides, i + 1)

\* The merge without the validHashes guard.
RECURSIVE MergeAll(_, _, _)
MergeAll(merged, overrides, i) ==
    IF i > Len(overrides) THEN merged
    ELSE MergeAll(MapSet(merged, overrides[i].hash, overrides[i]), overrides, i + 1)

NodePositionsUnguarded(defaultPositions, overrides) ==
    MergeAll(defaultPositions, overrides, 1)

\* The merge that drops the overrides.
NodePositionsNoOverride(defaultPositions, overrides) == defaultPositions

NodePositions(defaultPositions, overrides) ==
    MergeOverrides(defaultPositions, MapKeys(defaultPositions), overrides, 1)

(***************************************************************************)
(* relatedHashes: what the selection reaches.                              *)
(***************************************************************************)
\* children with the parents of a commit followed too.
ChildrenWithParents(obj) ==
    CASE obj.type = "tag" -> <<obj.objectHash>>
      [] obj.type = "commit" -> <<obj.tree>> \o obj.parent
      [] obj.type = "tree" -> obj.entries
      [] OTHER -> <<>>

Children(obj) ==
    CASE obj.type = "tag" -> <<obj.objectHash>>
      [] obj.type = "commit" -> <<obj.tree>>
      [] obj.type = "tree" -> obj.entries
      [] OTHER -> <<>>

\* for (const child of children): add and enqueue what the set has not.
RECURSIVE AddChildren(_, _, _)
AddChildren(st, children, i) ==
    IF i > Len(children) THEN st
    ELSE AddChildren(
             IF children[i] \in st.set THEN st
             ELSE [st EXCEPT !.set = @ \cup {children[i]},
                             !.queue = Append(@, children[i])],
             children, i + 1)

RelatedInit(selectedHash) ==
    [queue |-> <<selectedHash>>, index |-> 0, set |-> {selectedHash}]

\* One iteration of the while loop; st.index < Len(st.queue).
RelatedStep(objects, st) ==
    LET currentHash == st.queue[st.index + 1]
        next == [st EXCEPT !.index = @ + 1]
    IN  IF ~ObjectMapHas(objects, currentHash) THEN next
        ELSE AddChildren(next, Children(ObjectMapGet(objects, currentHash)), 1)

RECURSIVE RelatedLoop(_, _)
RelatedLoop(objects, st) ==
    IF st.index < Len(st.queue)
    THEN RelatedLoop(objects, RelatedStep(objects, st))
    ELSE st

RelatedHashes(objects, selectedHash) ==
    IF selectedHash = "" THEN {}
    ELSE RelatedLoop(objects, RelatedInit(selectedHash)).set

(***************************************************************************)
(* The edges of the render pass, in drawing order.  An edge is drawn when  *)
(* both ends have a node position.                                         *)
(***************************************************************************)
Edge(k, fromPos, toPos, isHighlighted) ==
    [kind |-> k, from |-> fromPos.hash, to |-> toPos.hash,
     highlighted |-> isHighlighted]

RECURSIVE ParentEdges(_, _, _, _)
ParentEdges(commit, nodePositions, selectedHash, i) ==
    IF i > Len(commit.parent) THEN <<>>
    ELSE (IF /\ MapHas(nodePositions, commit.hash)
             /\ MapHas(nodePositions, commit.parent[i])
          THEN LET fromPos == MapGet(nodePositions, commit.hash)
                   parentPos == MapGet(nodePositions, commit.parent[i])
               IN  <<Edge("parent", fromPos, parentPos,
                          fromPos.hash = selectedHash \/ parentPos.hash = selectedHash)>>
          ELSE <<>>) \o ParentEdges(commit, nodePositions, selectedHash, i + 1)

RECURSIVE CommitEdges(_, _, _, _, _)
CommitEdges(commits, nodePositions, relatedHashes, selectedHash, i) ==
    IF i > Len(commits) THEN <<>>
    ELSE LET commit == commits[i]
         IN  (IF /\ MapHas(nodePositions, commit.hash)
                 /\ MapHas(nodePositions, commit.tree)
              THEN LET fromPos == MapGet(nodePositions, commit.hash)
                       toPos == MapGet(nodePositions, commit.tree)
                   IN  <<Edge("tree", fromPos, toPos,
                              fromPos.hash \in relatedHashes /\ toPos.hash \in relatedHashes)>>
              ELSE <<>>)
             \o ParentEdges(commit, nodePositions, selectedHash, 1)
             \o CommitEdges(commits, nodePositions, relatedHashes, selectedHash, i + 1)

RECURSIVE TagEdges(_, _, _, _)
TagEdges(tags, nodePositions, relatedHashes, i) ==
    IF i > Len(tags) THEN <<>>
    ELSE (IF /\ MapHas(nodePositions, tags[i].hash)
             /\ MapHas(nodePositions, tags[i].objectHash)
          THEN LET fromPos == MapGet(nodePositions, tags[i].hash)
                   toPos == MapGet(nodePositions, tags[i].objectHash)
               IN  <<Edge("target", fromPos, toPos,
                          fromPos.hash \in relatedHashes /\ toPos.hash \in relatedHashes)>>
          ELSE <<>>) \o TagEdges(tags, nodePositions, relatedHashes, i + 1)

RECURSIVE EntryEdges(_, _, _, _)
EntryEdges(tree, nodePositions, relatedHashes, j) ==
    IF j > Len(tree.entries) THEN <<>>
    ELSE (IF MapHas(nodePositions, tree.entries[j])
          THEN LET fromPos == MapGet(nodePositions, tree.hash)
                   toPos == MapGet(nodePositions, tree.entries[j])
               IN  <<Edge("entry", fromPos, toPos,
                          fromPos.hash \in relatedHashes /\ toPos.hash \in relatedHashes)>>
          ELSE <<>>) \o EntryEdges(tree, nodePositions, relatedHashes, j + 1)

RECURSIVE TreeEdges(_, _, _, _)
TreeEdges(trees, nodePositions, relatedHashes, i) ==
    IF i > Len(trees) THEN <<>>
    ELSE (IF MapHas(nodePositions, trees[i].hash)
          THEN EntryEdges(trees[i], nodePositions, relatedHashes, 1)
          ELSE <<>>) \o TreeEdges(trees, nodePositions, relatedHashes, i + 1)

DrawnEdges(objects, nodePositions, relatedHashes, selectedHash) ==
    CommitEdges(Commits(objects), nodePositions, relatedHashes, selectedHash, 1)
    \o TagEdges(Tags(objects), nodePositions, relatedHashes, 1)
    \o TreeEdges(Trees(objects), nodePositions, relatedHashes, 1)

(***************************************************************************)
(* The node pass of the render effect: the colour of the icon of a node of *)
(* the given kind.                                                         *)
(***************************************************************************)
NodeColor(type) ==
    CASE type = "commit" -> "#60a5fa"
      [] type = "tree" -> "#4ade80"
      [] type = "tag" -> "#a78bfa"
      [] OTHER -> "#facc15"

(***************************************************************************)
(* The render effect: the drawing calls of one pass in the order they are  *)
(* issued.  A call has the layer it paints, the node it is for (the source *)
(* of an edge, the text of a caption) and, for an edge, the target.        *)
(***************************************************************************)
DrawCall(layer, h, t) == [layer |-> layer, hash |-> h, to |-> t]

EdgeCalls(edges) ==
    [i \in DOMAIN edges |-> DrawCall("edge", edges[i].from, edges[i].to)]

\* nodePositions.forEach: the disc, the label and the icon of each node.
RECURSIVE NodeCalls(_, _)
NodeCalls(nodePositions, i) ==
    IF i > Len(nodePositions) THEN <<>>
    ELSE << DrawCall("disc", nodePositions[i].hash, ""),
            DrawCall("label", nodePositions[i].hash, ""),
            DrawCall("icon", nodePositions[i].hash, "") >>
         \o NodeCalls(nodePositions, i + 1)

HeaderCalls ==
    << DrawCall("header", "TAGS", ""), DrawCall("header", "COMMITS", ""),
       DrawCall("header", "ROOT TREES", ""),
       DrawCall("header", "SUB TREES / FILES", "") >>

\* The canvas before the first pass.
NoFrame ==
    [ran |-> FALSE, resized |-> FALSE, width |-> 0, height |-> 0, calls |-> <<>>]

\* a || b on numbers.
OrElse(a, b) == IF a # 0 THEN a ELSE b

\* One pass of the effect; prevFrame is what the pass before left.
RenderEffect(prevFrame, surf, size, edges, nodePositions) ==
    IF ~surf.canvas \/ ~surf.context
    THEN [prevFrame EXCEPT !.ran = FALSE, !.resized = FALSE, !.calls = <<>>]
    ELSE LET displayWidth == OrElse(size.width, surf.clientWidth)
             displayHeight == OrElse(size.height, surf.clientHeight)
         IN  [ran |-> TRUE,
              resized |-> TRUE,
              width |-> displayWidth * surf.dpr,
              height |-> displayHeight * surf.dpr,
              calls |-> <<DrawCall("background", "", "")>>
                        \o EdgeCalls(edges)
                        \o NodeCalls(nodePositions, 1)
                        \o HeaderCalls]

(***************************************************************************)
(* Hit test of handleMouseDown and handleClick: the first node in map      *)
(* order whose centre is within NODE_RADIUS of the point, '' if none.      *)
(***************************************************************************)
Hits(pos, px, py) ==
    (px - pos.x) * (px - pos.x) + (py - pos.y) * (py - pos.y)
        <= NODE_RADIUS * NODE_RADIUS

\* The hit test taking the last match.
HitTestLast(nodePositions, px, py) ==
    IF \E i \in DOMAIN nodePositions : Hits(nodePositions[i], px, py)
    THEN nodePositions[CHOOSE i \in DOMAIN nodePositions :
             /\ Hits(nodePositions[i], px, py)
             /\ \A j \in DOMAIN nodePositions :
                    j > i => ~Hits(nodePositions[j], px, py)].hash
    ELSE ""

HitTest(nodePositions, px, py) ==
    IF \E i \in DOMAIN nodePositions : Hits(nodePositions[i], px, py)
    THEN nodePositions[CHOOSE i \in DOMAIN nodePositions :
             /\ Hits(nodePositions[i], px, py)
             /\ \A j \in DOMAIN nodePositions :
                    j < i => ~Hits(nodePositions[j], px, py)].hash
    ELSE ""

(***************************************************************************)
(* State.                                                                  *)
(*   mockObjects                        the object collection of the data  *)
(*                                      source                             *)
(*   visibleTypes, selectedObject       useState of ObjectDatabase         *)
(*   panOffset, isPanning, draggedNodeHash, lastMousePos, dragOverrides    *)
(*                                      useState of ObjectGraph            *)
(*   hasMoved                           hasMovedRef.current                *)
(*   rendered                           what the last render computed and  *)
(*                                      its handlers closed over           *)
(*   mouse, button                      the pointer: where it is, and      *)
(*                                      whether a mouseup awaits its click *)
(*   moves, toggles                     number of mousemove events and of  *)
(*                                      filter clicks so far               *)
(*   fired                              argument of the onSelectObject     *)
(*                                      call of the last event, '' if none *)
(*   gesture                            history of the current gesture     *)
(*   containerSize                      useState of ObjectGraph, set by    *)
(*                                      the ResizeObserver                 *)
(*   surface                            the canvas as the render effect    *)
(*                                      finds it: whether canvasRef holds  *)
(*                                      it, whether getContext('2d') gives *)
(*                                      a context, its client size and the *)
(*                                      device pixel ratio                 *)
(***************************************************************************)
VARIABLES mockObjects, visibleTypes, selectedObject,
          panOffset, isPanning, draggedNodeHash, lastMousePos, dragOverrides,
          hasMoved, rendered, mouse, button, moves, toggles, fired, gesture,
          containerSize, surface

vars == <<mockObjects, visibleTypes, selectedObject,
          panOffset, isPanning, draggedNodeHash, lastMousePos, dragOverrides,
          hasMoved, rendered, mouse, button, moves, toggles, fired, gesture,
          containerSize, surface>>

(***************************************************************************)
(* Bounds of the model.                                                    *)
(***************************************************************************)
MaxMoves == 2
MaxToggles == 2

\* Pointer positions the events are drawn from (canvas coordinates): the
\* centre of the subtree t2 of SampleRepo before any pan or drag, one pixel
\* below it, three pixels right of it, and a point no node covers then.
Pointers ==
    { [x |-> 470, y |-> 150], [x |-> 470, y |-> 151],
      [x |-> 473, y |-> 150], [x |-> 410, y |-> 150] }

AllTypes == {"commit", "tree", "blob", "tag"}

\* A small repository in the shape of the default one: two commits on one
\* root tree, a subtree, a blob at depth 1 and one at depth 2.
SampleRepo ==
    << CommitObject("c1", "t1", <<"c0">>),
       CommitObject("c0", "t1", <<>>),
       TreeObject("t1", <<"b1", "t2">>),
       TreeObject("t2", <<"b2">>),
       BlobObject("b1"),
       BlobObject("b2") >>

(***************************************************************************)
(* ObjectDatabase: the filtered collection handed to ObjectGraph.          *)
(***************************************************************************)
RECURSIVE FilterVisible(_, _, _)
FilterVisible(objects, types, i) ==
    IF i > Len(objects) THEN <<>>
    ELSE (IF objects[i].type \in types THEN <<objects[i]>> ELSE <<>>)
         \o FilterVisible(objects, types, i + 1)

\* The unfiltered collection.
UnfilteredObjects(objects, types) == objects

FilteredObjects(objects, types) == FilterVisible(objects, types, 1)

(***************************************************************************)
(* One render of ObjectGraph: the memos (layout, merge, highlight), the    *)
(* frame drawn by the render effect and the state the handlers close over. *)
(* defaultPositions is memoised on the identity of objects: objectsRef is   *)
(* the visibleTypes value the array was filtered for, a new array for each *)
(* new value; layoutRuns counts the runs of the layout.  wasAbsent is      *)
(* history: the hashes that had a drag override at a render whose layout   *)
(* lacked them.                                                            *)
(***************************************************************************)
\* A memo that is never kept.
LayoutNeverKept(prev, objectsRef) == FALSE

\* useMemo(..., [objects]): the layout of the render before is kept.
LayoutKept(prev, objectsRef) == prev.mounted /\ prev.objectsRef = objectsRef

RenderOf(prev, objects, objectsRef, selectedHash, pan, panning, dragged, last, overrides, size) ==
    LET kept == LayoutKept(prev, objectsRef)
        dp == IF kept THEN prev.defaultPositions ELSE DefaultPositions(objects)
        dm == IF kept THEN prev.depthMap ELSE DepthMap(objects)
        np == NodePositions(dp, overrides)
        rel == RelatedHashes(objects, selectedHash)
        es == DrawnEdges(objects, np, rel, selectedHash)
    IN  [mounted |-> TRUE,
         wasAbsent |-> prev.wasAbsent
                           \cup {h \in MapKeys(overrides) : ~MapHas(dp, h)},
         objects |-> objects,
         objectsRef |-> objectsRef,
         layoutRuns |-> IF kept THEN prev.layoutRuns ELSE prev.layoutRuns + 1,
         selectedHash |-> selectedHash,
         panOffset |-> pan,
         isPanning |-> panning,
         draggedNodeHash |-> dragged,
         lastMousePos |-> last,
         dragOverrides |-> overrides,
         depthMap |-> dm,
         defaultPositions |-> dp,
         nodePositions |-> np,
         relatedHashes |-> rel,
         edges |-> es,
         frame |-> RenderEffect(prev.frame, surface, size, es, np)]

Unmounted ==
    [mounted |-> FALSE, wasAbsent |-> {}, objects |-> <<>>, objectsRef |-> {},
     layoutRuns |-> 0, selectedHash |-> "",
     panOffset |-> [x |-> PAN_START, y |-> PAN_START], isPanning |-> FALSE,
     draggedNodeHash |-> "", lastMousePos |-> [x |-> 0, y |-> 0],
     dragOverrides |-> <<>>, depthMap |-> <<>>, defaultPositions |-> <<>>,
     nodePositions |-> <<>>, relatedHashes |-> {}, edges |-> <<>>,
     frame |-> NoFrame]

\* The render that follows a discrete event: all of the new state.
Flush(types, sel, pan, panning, dragged, last, overrides) ==
    RenderOf(rendered, FilteredObjects(mockObjects, types), types, sel,
             pan, panning, dragged, last, overrides, containerSize)

NoGesture ==
    [phase |-> "none", node |-> "", startX |-> 0, startY |-> 0,
     downX |-> 0, downY |-> 0, nmoves |-> 0, changed |-> FALSE,
     far |-> FALSE, still |-> TRUE, inStep |-> TRUE,
     panning |-> FALSE, panX |-> 0, panY |-> 0]

\* A canvas that is there, gives a context and has a client size.
NormalSurface ==
    [canvas |-> TRUE, context |-> TRUE,
     clientWidth |-> 800, clientHeight |-> 600, dpr |-> 1]

InitState ==
    /\ visibleTypes = AllTypes
    /\ panOffset = [x |-> PAN_START, y |-> PAN_START]
    /\ isPanning = FALSE
    /\ draggedNodeHash = ""
    /\ lastMousePos = [x |-> 0, y |-> 0]
    /\ dragOverrides = <<>>
    /\ hasMoved = FALSE
    /\ button = "up"
    /\ moves = 0
    /\ toggles = 0
    /\ fired = ""
    /\ gesture = NoGesture
    /\ containerSize = [width |-> 0, height |-> 0]

Init ==
    /\ mockObjects = SampleRepo
    /\ selectedObject = ""
    /\ InitState
    /\ surface = NormalSurface
    /\ mouse \in Pointers
    /\ rendered = RenderOf(Unmounted, FilteredObjects(mockObjects, visibleTypes),
                           visibleTypes,
                           "", panOffset, isPanning, draggedNodeHash,
                           lastMousePos, dragOverrides, containerSize)

\* Nothing of a render is pending.
Clean ==
    /\ rendered.panOffset = panOffset
    /\ rendered.lastMousePos = lastMousePos
    /\ rendered.dragOverrides = dragOverrides

(***************************************************************************)
(* The ResizeObserver callback: the parent element got the size s.         *)
(***************************************************************************)
ContainerSizes ==
    { [width |-> 0, height |-> 0], [width |-> 800, height |-> 600] }

Resize(s) ==
    /\ s # containerSize
    /\ containerSize' = s
    /\ rendered' = RenderOf(rendered, FilteredObjects(mockObjects, visibleTypes),
                            visibleTypes, selectedObject, panOffset, isPanning,
                            draggedNodeHash, lastMousePos, dragOverrides, s)
    /\ UNCHANGED <<mockObjects, surface, visibleTypes, selectedObject, panOffset, isPanning,
                   draggedNodeHash, lastMousePos, dragOverrides, hasMoved,
                   mouse, button, moves, toggles, fired, gesture>>

(***************************************************************************)
(* ObjectDatabase: a filter button toggles one kind.                       *)
(***************************************************************************)
ToggleType(type) ==
    /\ toggles < MaxToggles
    /\ toggles' = toggles + 1
    /\ visibleTypes' = IF type \in visibleTypes
                       THEN visibleTypes \ {type}
                       ELSE visibleTypes \cup {type}
    /\ rendered' = Flush(visibleTypes', selectedObject, panOffset, isPanning,
                         draggedNodeHash, lastMousePos, dragOverrides)
    /\ fired' = ""
    /\ button' = "up"
    /\ gesture' = NoGesture
    /\ UNCHANGED <<mockObjects, surface, containerSize, selectedObject, panOffset, isPanning,
                   draggedNodeHash, lastMousePos, dragOverrides, hasMoved,
                   mouse, moves>>

(***************************************************************************)
(* handleMouseDown, at the pointer's position.                             *)
(***************************************************************************)
HandleMouseDown ==
    LET mouseX == mouse.x - rendered.panOffset.x
        mouseY == mouse.y - rendered.panOffset.y
        clickedNodeHash == HitTest(rendered.nodePositions, mouseX, mouseY)
    IN  /\ lastMousePos' = mouse
        /\ hasMoved' = FALSE
        /\ IF clickedNodeHash # ""
           THEN draggedNodeHash' = clickedNodeHash /\ isPanning' = isPanning
           ELSE isPanning' = TRUE /\ draggedNodeHash' = draggedNodeHash
        /\ rendered' = Flush(visibleTypes, selectedObject, panOffset, isPanning',
                             draggedNodeHash', lastMousePos', dragOverrides)
        /\ fired' = ""
        /\ button' = "down"
        /\ gesture' = IF ~Clean THEN NoGesture ELSE
                      [phase |-> "down", node |-> clickedNodeHash,
                       startX |-> IF clickedNodeHash # ""
                                  THEN MapGet(rendered.nodePositions, clickedNodeHash).x
                                  ELSE 0,
                       startY |-> IF clickedNodeHash # ""
                                  THEN MapGet(rendered.nodePositions, clickedNodeHash).y
                                  ELSE 0,
                       downX |-> mouse.x, downY |-> mouse.y,
                       nmoves |-> 0, changed |-> FALSE, far |-> FALSE,
                       still |-> TRUE, inStep |-> TRUE,
                       panning |-> isPanning' /\ draggedNodeHash' = "",
                       panX |-> panOffset.x, panY |-> panOffset.y]
        /\ UNCHANGED <<mockObjects, surface, containerSize, visibleTypes, selectedObject, panOffset,
                       dragOverrides, mouse, moves, toggles>>

(***************************************************************************)
(* handleMouseMove, the pointer going to p.  It reads the state of the     *)
(* last render; its render is left pending.                                *)
(***************************************************************************)
Abs(n) == IF n < 0 THEN -n ELSE n

\* The threshold of the moved flag.
ExceedsAlways(dx, dy) == TRUE

ExceedsNonZero(dx, dy) == dx # 0 \/ dy # 0

Exceeds(dx, dy) == Abs(dx) > MOVE_THRESHOLD \/ Abs(dy) > MOVE_THRESHOLD

\* The update that moves on from the latest override of the node.
DragUpdateFromPrev(prev, nodePositions, dragged, dx, dy) ==
    IF MapHas(nodePositions, dragged)
    THEN LET currentPos == IF MapHas(prev, dragged)
                           THEN MapGet(prev, dragged)
                           ELSE MapGet(nodePositions, dragged)
         IN  MapSet(prev, dragged,
                    [currentPos EXCEPT !.x = currentPos.x + dx,
                                       !.y = currentPos.y + dy])
    ELSE prev

\* setDragOverrides((prev) => ...) of handleMouseMove.
DragUpdate(prev, nodePositions, dragged, dx, dy) ==
    IF MapHas(nodePositions, dragged)
    THEN LET currentPos == MapGet(nodePositions, dragged)
         IN  MapSet(prev, dragged,
                    [currentPos EXCEPT !.x = currentPos.x + dx,
                                       !.y = currentPos.y + dy])
    ELSE prev

\* setPanOffset((prev) => ...) of handleMouseMove.
PanUpdate(prev, dx, dy) == [x |-> prev.x + dx, y |-> prev.y + dy]

\* The branch taking the pan whenever no node is dragged.
MoveBranchPanIdle(dragged, panning) ==
    IF dragged # "" THEN "drag" ELSE "pan"

\* The branch taking the pan first.
MoveBranchPanFirst(dragged, panning) ==
    IF panning THEN "pan" ELSE IF dragged # "" THEN "drag" ELSE "none"

\* if (draggedNodeHash) ... else if (isPanning) ... of handleMouseMove.
MoveBranch(dragged, panning) ==
    IF dragged # "" THEN "drag" ELSE IF panning THEN "pan" ELSE "none"

HandleMouseMove(p) ==
    LET dx == p.x - rendered.lastMousePos.x
        dy == p.y - rendered.lastMousePos.y
        branch == MoveBranch(rendered.draggedNodeHash, rendered.isPanning)
    IN  /\ moves < MaxMoves
        /\ moves' = moves + 1
        /\ mouse' = p
        /\ hasMoved' = (hasMoved \/ Exceeds(dx, dy))
        /\ dragOverrides' = IF branch = "drag"
                            THEN DragUpdate(dragOverrides, rendered.nodePositions,
                                            rendered.draggedNodeHash, dx, dy)
                            ELSE dragOverrides
        /\ panOffset' = IF branch = "pan"
                        THEN PanUpdate(panOffset, dx, dy)
                        ELSE panOffset
        /\ lastMousePos' = p
        /\ fired' = ""
        /\ button' = IF button = "released" THEN "up" ELSE button
        /\ gesture' = IF gesture.phase = "down"
                      THEN [gesture EXCEPT
                               !.nmoves = @ + 1,
                               !.changed = @ \/ dragOverrides' # dragOverrides
                                             \/ panOffset' # panOffset,
                               !.far = @ \/ Abs(p.x - mouse.x) > MOVE_THRESHOLD
                                         \/ Abs(p.y - mouse.y) > MOVE_THRESHOLD,
                               !.still = @ /\ p = mouse,
                               !.inStep = @ /\ Clean]
                      ELSE NoGesture
        /\ UNCHANGED <<mockObjects, surface, containerSize, visibleTypes, selectedObject, isPanning,
                       draggedNodeHash, rendered, toggles>>

\* The render a mousemove left pending.
Render ==
    /\ ~Clean
    /\ rendered' = Flush(visibleTypes, selectedObject, panOffset, isPanning,
                         draggedNodeHash, lastMousePos, dragOverrides)
    /\ UNCHANGED <<mockObjects, surface, containerSize, visibleTypes, selectedObject, panOffset, isPanning,
                   draggedNodeHash, lastMousePos, dragOverrides, hasMoved,
                   mouse, button, moves, toggles, fired, gesture>>

(***************************************************************************)
(* handleMouseUp, bound to mouseup and to mouseleave.                      *)
(***************************************************************************)
\* A handler that ends the pan and keeps the dragged node.
HandleMouseUpKeepsDrag ==
    /\ isPanning' = FALSE
    /\ draggedNodeHash' = draggedNodeHash
    /\ rendered' = Flush(visibleTypes, selectedObject, panOffset, isPanning',
                         draggedNodeHash', lastMousePos, dragOverrides)
    /\ fired' = ""
    /\ UNCHANGED <<mockObjects, surface, containerSize, visibleTypes, selectedObject, panOffset,
                   lastMousePos, dragOverrides, hasMoved, mouse, moves, toggles>>

HandleMouseUp ==
    /\ isPanning' = FALSE
    /\ draggedNodeHash' = ""
    /\ rendered' = Flush(visibleTypes, selectedObject, panOffset, isPanning',
                         draggedNodeHash', lastMousePos, dragOverrides)
    /\ fired' = ""
    /\ UNCHANGED <<mockObjects, surface, containerSize, visibleTypes, selectedObject, panOffset,
                   lastMousePos, dragOverrides, hasMoved, mouse, moves, toggles>>

MouseUp ==
    /\ button = "down"
    /\ HandleMouseUp
    /\ button' = "released"
    /\ gesture' = IF gesture.phase = "down"
                  THEN [gesture EXCEPT !.phase = "up"]
                  ELSE NoGesture

MouseLeave ==
    /\ HandleMouseUp
    /\ button' = IF button = "released" THEN "up" ELSE button
    /\ gesture' = NoGesture

(***************************************************************************)
(* handleClick, at the pointer's position, after a mouseup; on a hit the   *)
(* parent's onSelectObject selects the object.                             *)
(***************************************************************************)
HandleClick ==
    LET clickX == mouse.x - rendered.panOffset.x
        clickY == mouse.y - rendered.panOffset.y
        foundHash == IF hasMoved THEN ""
                     ELSE HitTest(rendered.nodePositions, clickX, clickY)
    IN  /\ button = "released"
        /\ button' = "up"
        /\ fired' = foundHash
        /\ selectedObject' = IF foundHash # "" /\ ObjectMapHas(mockObjects, foundHash)
                             THEN foundHash
                             ELSE selectedObject
        /\ rendered' = Flush(visibleTypes, selectedObject', panOffset, isPanning,
                             draggedNodeHash, lastMousePos, dragOverrides)
        /\ gesture' = IF gesture.phase = "up"
                      THEN [gesture EXCEPT !.phase = "click"]
                      ELSE NoGesture
        /\ UNCHANGED <<mockObjects, surface, containerSize, visibleTypes, panOffset, isPanning,
                       draggedNodeHash, lastMousePos, dragOverrides, hasMoved,
                       mouse, moves, toggles>>

Next ==
    \/ \E type \in AllTypes : ToggleType(type)
    \/ HandleMouseDown
    \/ \E p \in Pointers : HandleMouseMove(p)
    \/ Render
    \/ MouseUp
    \/ MouseLeave
    \/ HandleClick
    \/ \E s \in ContainerSizes : Resize(s)

Spec == Init /\ [][Next]_vars

(***************************************************************************)
(* The graph functions on every small collection: the collection and the   *)
(* selection are drawn from bounded sets and the first render applies the  *)
(* layout, the merge, the highlight and the edge pass to them.             *)
(***************************************************************************)
MaxObjects == 3
MaxEntries == 2

\* The object at place i of a drawn collection carries the i-th name.
HashNames == <<"a", "b", "c", "d", "e">>
Hashes == {HashNames[i] : i \in 1..MaxObjects}

\* What a reference may name: an object of the collection or nothing in it.
Refs == Hashes \cup {"x"}

ParentLists == {<<>>} \cup {<<h>> : h \in Hashes}
EntryLists == UNION {[1..n -> Refs] : n \in 0..MaxEntries}

ObjectsAt(h) ==
    {CommitObject(h, t, p) : t \in Refs, p \in ParentLists}
    \cup {TreeObject(h, es) : es \in EntryLists}
    \cup {BlobObject(h)}
    \cup {OtherObject(h)}
    \cup {TagObject(h, t) : t \in Refs}

\* The collection made of the drawn objects, named by their places.
Named(b) == [i \in DOMAIN b |-> [b[i] EXCEPT !.hash = HashNames[i]]]

InitGraph ==
    /\ \E n \in 0..MaxObjects : \E b \in [1..n -> ObjectsAt("a")] :
           mockObjects = Named(b)
    /\ InitState
    /\ surface = NormalSurface
    /\ mouse = [x |-> 0, y |-> 0]
    /\ selectedObject \in {"", HashNames[1], "x"}
    /\ rendered = Unmounted

Mount ==
    /\ ~rendered.mounted
    /\ rendered' = RenderOf(rendered, FilteredObjects(mockObjects, visibleTypes),
                            visibleTypes,
                            selectedObject, panOffset, isPanning, draggedNodeHash,
                            lastMousePos, dragOverrides, containerSize)
    /\ UNCHANGED <<mockObjects, surface, containerSize, visibleTypes, selectedObject, panOffset, isPanning,
                   draggedNodeHash, lastMousePos, dragOverrides, hasMoved,
                   mouse, button, moves, toggles, fired, gesture>>

SpecGraph == InitGraph /\ [][Mount]_vars

(***************************************************************************)
(* The graph functions on collections in which objects may share a hash:   *)
(* every object takes one of the first two names.                          *)
(***************************************************************************)
MaxDupObjects == 2

DupNames == {HashNames[1], HashNames[2]}

\* The collection made of the drawn objects, named by f.
NamedBy(b, f) == [i \in DOMAIN b |-> [b[i] EXCEPT !.hash = f[i]]]

InitDup ==
    /\ \E n \in 0..MaxDupObjects :
           \E b \in [1..n -> ObjectsAt("a")] : \E f \in [1..n -> DupNames] :
               mockObjects = NamedBy(b, f)
    /\ InitState
    /\ surface = NormalSurface
    /\ mouse = [x |-> 0, y |-> 0]
    /\ selectedObject \in {"", HashNames[1]}
    /\ rendered = Unmounted

SpecDup == InitDup /\ [][Mount]_vars

(***************************************************************************)
(* The render effect on every surface: the canvas may be missing, may give *)
(* no context and may have no client size; the filter buttons and the      *)
(* ResizeObserver bring the renders.                                       *)
(***************************************************************************)
Surfaces ==
    { [canvas |-> c, context |-> x, clientWidth |-> s.width,
       clientHeight |-> s.height, dpr |-> r] :
          c \in BOOLEAN, x \in BOOLEAN, s \in ContainerSizes, r \in {1, 2} }

InitFrame ==
    /\ mockObjects = SampleRepo
    /\ selectedObject = ""
    /\ InitState
    /\ surface \in Surfaces
    /\ mouse = [x |-> 0, y |-> 0]
    /\ rendered = RenderOf(Unmounted, FilteredObjects(mockObjects, visibleTypes),
                           visibleTypes,
                           "", panOffset, isPanning, draggedNodeHash,
                           lastMousePos, dragOverrides, containerSize)

NextFrame ==
    \/ \E type \in AllTypes : ToggleType(type)
    \/ \E s \in ContainerSizes : Resize(s)

SpecFrame == InitFrame /\ [][NextFrame]_vars

(***************************************************************************)
(* The hit tests on collections whose layout puts nodes on one another:    *)
(* commits, blobs and tags, the pointer on the places the layout gives to  *)
(* the first commit, to a tag anchored to it and to the first tag of the   *)
(* default column, or on none.                                             *)
(***************************************************************************)
PickObjects ==
    {CommitObject("a", "x", <<>>), BlobObject("a")}
    \cup {TagObject("a", t) : t \in Refs}

PickPointers ==
    { [x |-> COL_WIDTH_COMMIT + PAN_START,
       y |-> NODE_TO_LABELS_GAP + PAN_START],
      [x |-> COL_WIDTH_COMMIT - TAG_OFFSET_X + PAN_START,
       y |-> NODE_TO_LABELS_GAP + PAN_START],
      [x |-> COL_START_OBJECTS + PAN_START,
       y |-> NODE_TO_LABELS_GAP + PAN_START],
      [x |-> 0, y |-> 0] }

InitPick ==
    /\ \E n \in 0..MaxObjects : \E b \in [1..n -> PickObjects] :
           mockObjects = Named(b)
    /\ selectedObject = ""
    /\ InitState
    /\ surface = NormalSurface
    /\ mouse \in PickPointers
    /\ rendered = RenderOf(Unmounted, FilteredObjects(mockObjects, visibleTypes),
                           visibleTypes,
                           "", panOffset, isPanning, draggedNodeHash,
                           lastMousePos, dragOverrides, containerSize)

NextPick ==
    \/ HandleMouseDown
    \/ MouseUp
    \/ MouseLeave
    \/ HandleClick

SpecPick == InitPick /\ [][NextPick]_vars

(***************************************************************************)
(* Properties of the pointer handlers and of the merge (Spec).             *)
(*                                                                         *)
(* gesture records an unbroken run mousedown, mousemoves, mouseup, click   *)
(* whose mousedown found no render of an earlier mousemove pending:        *)
(* node is the node the mousedown hit ('' for none) and (startX, startY)   *)
(* its position then, (downX, downY) the pointer at the mousedown, nmoves  *)
(* the mousemoves since, changed whether one of them changed dragOverrides *)
(* or panOffset, far whether one of them moved the pointer by more than    *)
(* one pixel in x or y, still whether none of them moved the pointer,       *)
(* inStep whether each of them found the one before it rendered, panning   *)
(* whether the mousedown left the component panning with no node dragged,  *)
(* (panX, panY) the pan offset at the mousedown.                           *)
(***************************************************************************)
EffectiveAt(h) == MapGet(rendered.nodePositions, h)
LayoutAt(h) == MapGet(rendered.defaultPositions, h)
OverrideAt(h) == MapGet(rendered.dragOverrides, h)

\* C1: a click that ends a gesture whose mousemoves changed a drag override
\* or the pan offset does not call onSelectObject.
C1_NoSelectionAfterChange ==
    (gesture.phase = "click" /\ gesture.changed) => fired = ""

C3_SameKeys ==
    MapKeys(rendered.nodePositions) = MapKeys(rendered.defaultPositions)

\* A node was dragged and its kind then hidden: the override is still
\* stored and the merged positions have no entry for it.
C3_Witness ==
    \E i \in DOMAIN rendered.dragOverrides :
        /\ ~MapHas(rendered.defaultPositions, rendered.dragOverrides[i].hash)
        /\ ~MapHas(rendered.nodePositions, rendered.dragOverrides[i].hash)

\* C4: an identifier that has a drag override and is in the layout is shown
\* at the x and y of the override, whatever the layout gives it.
C4_OverridePrecedence ==
    \A i \in DOMAIN rendered.dragOverrides :
        LET p == rendered.dragOverrides[i]
        IN  MapHas(rendered.defaultPositions, p.hash)
                => /\ EffectiveAt(p.hash).x = p.x
                   /\ EffectiveAt(p.hash).y = p.y

\* The layout was recomputed after a drag and gives the dragged node another
\* place than the override, which is where the node is shown.
C4_Witness ==
    /\ visibleTypes # AllTypes
    /\ \E i \in DOMAIN rendered.dragOverrides :
           LET p == rendered.dragOverrides[i]
           IN  /\ MapHas(rendered.defaultPositions, p.hash)
               /\ LayoutAt(p.hash).x # p.x
               /\ EffectiveAt(p.hash).x = p.x
               /\ EffectiveAt(p.hash).y = p.y

\* C5: every merged position has the kind and the depth of the layout's
\* entry for its identifier.
C5_KindAndDepthFromLayout ==
    \A i \in DOMAIN rendered.nodePositions :
        LET e == rendered.nodePositions[i]
        IN  MapHas(rendered.defaultPositions, e.hash)
                => /\ e.type = LayoutAt(e.hash).type
                   /\ e.depth = LayoutAt(e.hash).depth

\* C6 as claimed: a node whose override outlived an absence from the layout
\* is shown at its layout position once it is back.
C6_ShownAtBaseAfterReturn ==
    \A h \in rendered.wasAbsent :
        MapHas(rendered.defaultPositions, h)
            => /\ EffectiveAt(h).x = LayoutAt(h).x
               /\ EffectiveAt(h).y = LayoutAt(h).y

\* C6 amended: an override is never cleared; while its identifier is absent
\* from the layout it is ignored, and once the identifier is back the node
\* is shown at the override again.
C6_OverrideKeptAcrossAbsence ==
    \A h \in rendered.wasAbsent :
        /\ MapHas(rendered.dragOverrides, h)
        /\ MapHas(dragOverrides, h)
        /\ IF MapHas(rendered.defaultPositions, h)
           THEN /\ EffectiveAt(h).x = OverrideAt(h).x
                /\ EffectiveAt(h).y = OverrideAt(h).y
           ELSE ~MapHas(rendered.nodePositions, h)

\* A dragged node left the layout and came back: it is shown at the
\* override, away from its layout position.
C6_Witness ==
    \E h \in rendered.wasAbsent :
        /\ MapHas(rendered.defaultPositions, h)
        /\ EffectiveAt(h).x = OverrideAt(h).x
        /\ EffectiveAt(h).y = OverrideAt(h).y
        /\ <<LayoutAt(h).x, LayoutAt(h).y>> # <<OverrideAt(h).x, OverrideAt(h).y>>

(***************************************************************************)
(* Properties of the graph functions (SpecGraph).                          *)
(*                                                                         *)
(* A content edge u -> v of a collection: u is an object of it and v is    *)
(* the target of the tag u, the tree of the commit u or an entry of the    *)
(* tree u.  v need not be an object of the collection.                     *)
(***************************************************************************)
ContentEdge(objects, u, v) ==
    /\ ObjectMapHas(objects, u)
    /\ LET o == ObjectMapGet(objects, u)
       IN  \/ o.type = "tag" /\ v = o.objectHash
           \/ o.type = "commit" /\ v = o.tree
           \/ o.type = "tree" /\ \E j \in DOMAIN o.entries : o.entries[j] = v

\* Every identifier a collection or a selection can name.
Universe(objects, selectedHash) ==
    {selectedHash}
    \cup {objects[i].hash : i \in DOMAIN objects}
    \cup {objects[i].tree : i \in DOMAIN objects}
    \cup {objects[i].objectHash : i \in DOMAIN objects}
    \cup UNION {{objects[i].entries[j] : j \in DOMAIN objects[i].entries} :
                   i \in DOMAIN objects}

ClosedFrom(objects, selectedHash, S) ==
    /\ selectedHash \in S
    /\ \A u \in S : \A v \in Universe(objects, selectedHash) :
           ContentEdge(objects, u, v) => v \in S

\* The least set that holds the selection and is closed under content edges.
Reachable(objects, selectedHash) ==
    {v \in Universe(objects, selectedHash) :
        \A S \in SUBSET Universe(objects, selectedHash) :
            ClosedFrom(objects, selectedHash, S) => v \in S}

IsObjectOfType(objects, h, t) ==
    ObjectMapHas(objects, h) /\ ObjectMapGet(objects, h).type = t

\* C7: relatedHashes is empty when nothing is selected and otherwise is the
\* set of the identifiers reachable from the selection, itself included,
\* along tag -> target, commit -> tree and tree -> entry; for a selected tag
\* that is the tag with all that is reachable from its target.
C7_ReachableSetExact ==
    rendered.mounted =>
        /\ rendered.relatedHashes
               = IF rendered.selectedHash = "" THEN {}
                 ELSE Reachable(rendered.objects, rendered.selectedHash)
        /\ IsObjectOfType(rendered.objects, rendered.selectedHash, "tag") =>
               rendered.relatedHashes
                   = {rendered.selectedHash}
                     \cup Reachable(rendered.objects,
                                    ObjectMapGet(rendered.objects,
                                                 rendered.selectedHash).objectHash)

\* A tag is selected whose target is a commit with a tree in the
\* collection: all three are in relatedHashes.
C7_Witness ==
    /\ rendered.mounted
    /\ IsObjectOfType(rendered.objects, rendered.selectedHash, "tag")
    /\ LET target == ObjectMapGet(rendered.objects, rendered.selectedHash).objectHash
       IN  /\ IsObjectOfType(rendered.objects, target, "commit")
           /\ IsObjectOfType(rendered.objects,
                             ObjectMapGet(rendered.objects, target).tree, "tree")
           /\ {rendered.selectedHash, target,
                ObjectMapGet(rendered.objects, target).tree}
                  \subseteq rendered.relatedHashes

\* The parents of the selected commit, when a commit is selected.
SelectedParents ==
    IF IsObjectOfType(rendered.objects, rendered.selectedHash, "commit")
    THEN LET c == ObjectMapGet(rendered.objects, rendered.selectedHash)
         IN  {c.parent[i] : i \in DOMAIN c.parent}
    ELSE {}

\* C8 as claimed: no parent of the selected commit is in relatedHashes.
C8_NoParentInReachableSet ==
    rendered.mounted => SelectedParents \cap rendered.relatedHashes = {}

\* C8 amended: a parent of the selected commit is in relatedHashes only if
\* it is the selected commit itself or a content edge leads to it from a
\* member of relatedHashes; being a parent puts nothing in the set.
C8_ParentOnlyByContentEdge ==
    rendered.mounted =>
        \A p \in SelectedParents \cap rendered.relatedHashes :
            \/ p = rendered.selectedHash
            \/ \E u \in rendered.relatedHashes :
                   ContentEdge(rendered.objects, u, p)

\* A commit is selected whose parent is another commit of the collection;
\* its tree is in relatedHashes and the parent is not.
C8_Witness ==
    /\ rendered.mounted
    /\ \E p \in SelectedParents :
           /\ p # rendered.selectedHash
           /\ IsObjectOfType(rendered.objects, p, "commit")
           /\ p \notin rendered.relatedHashes
    /\ ObjectMapGet(rendered.objects, rendered.selectedHash).tree
           \in rendered.relatedHashes

\* C9: every drawn edge is highlighted exactly when both its ends are in
\* relatedHashes.
C9_EmphasizedIffBothReachable ==
    \A i \in DOMAIN rendered.edges :
        rendered.edges[i].highlighted
            <=> /\ rendered.edges[i].from \in rendered.relatedHashes
                /\ rendered.edges[i].to \in rendered.relatedHashes

\* The identifiers the depth pass starts from, and the visited trees that
\* have h among their entries.
DepthRoots ==
    {rendered.objects[i].tree :
        i \in {j \in DOMAIN rendered.objects :
                  rendered.objects[j].type = "commit" /\ rendered.objects[j].tree # ""}}

VisitedParents(h) ==
    {p \in DOMAIN rendered.depthMap :
        /\ IsObjectOfType(rendered.objects, p, "tree")
        /\ ContentEdge(rendered.objects, p, h)}

\* C10: the tree of every commit has depth 0; every other identifier the
\* pass reached has the least depth of its visited parents plus one; no
\* entry of a visited tree is deeper than that tree's depth plus one.
C10_DepthAssignment ==
    rendered.mounted =>
        /\ \A r \in DepthRoots :
               r \in DOMAIN rendered.depthMap /\ rendered.depthMap[r] = 0
        /\ \A h \in DOMAIN rendered.depthMap :
               h \notin DepthRoots =>
                   /\ VisitedParents(h) # {}
                   /\ \E p \in VisitedParents(h) :
                          rendered.depthMap[h] = rendered.depthMap[p] + 1
                   /\ \A p \in VisitedParents(h) :
                          rendered.depthMap[h] <= rendered.depthMap[p] + 1
        /\ \A h \in DOMAIN rendered.depthMap : \A p \in VisitedParents(h) :
               rendered.depthMap[h] <= rendered.depthMap[p] + 1

\* An identifier is an entry of two visited trees of different depths and
\* has the smaller of the two depths plus one.
C10_Witness ==
    /\ rendered.mounted
    /\ \E h \in DOMAIN rendered.depthMap :
           /\ h \notin DepthRoots
           /\ \E p, q \in VisitedParents(h) :
                  /\ rendered.depthMap[p] < rendered.depthMap[q]
                  /\ rendered.depthMap[h] = rendered.depthMap[p] + 1

(***************************************************************************)
(* Properties of the layout (SpecDup, SpecGraph).                          *)
(***************************************************************************)
\* The objects of the rendered collection that carry the hash h.
ObjectsWithHash(h) ==
    {i \in DOMAIN rendered.objects : rendered.objects[i].hash = h}

\* C11 as claimed: the layout holds each identifier at most once and every
\* identifier in it is the hash of exactly one object of the collection.
C11_ExactlyOneObject ==
    rendered.mounted =>
        /\ \A i, j \in DOMAIN rendered.defaultPositions :
               rendered.defaultPositions[i].hash = rendered.defaultPositions[j].hash
                   => i = j
        /\ \A h \in MapKeys(rendered.defaultPositions) :
               Cardinality(ObjectsWithHash(h)) = 1

\* C11 amended: the layout holds each identifier at most once, every
\* identifier in it is the hash of at least one object of the collection,
\* and of exactly one when no two objects of the collection share a hash.
C11_UniqueAndFromCollection ==
    rendered.mounted =>
        /\ \A i, j \in DOMAIN rendered.defaultPositions :
               rendered.defaultPositions[i].hash = rendered.defaultPositions[j].hash
                   => i = j
        /\ \A h \in MapKeys(rendered.defaultPositions) :
               /\ ObjectsWithHash(h) # {}
               /\ (\A i, j \in DOMAIN rendered.objects :
                       rendered.objects[i].hash = rendered.objects[j].hash => i = j)
                      => Cardinality(ObjectsWithHash(h)) = 1

\* Two objects of different kinds share a hash and the layout holds the
\* hash once.
C11_Witness ==
    /\ rendered.mounted
    /\ Len(rendered.objects) = 2
    /\ rendered.objects[1].hash = rendered.objects[2].hash
    /\ rendered.objects[1].type # rendered.objects[2].type
    /\ Len(rendered.defaultPositions) = 1

\* The hashes of the rendered collection.
ObjectHashes == {rendered.objects[i].hash : i \in DOMAIN rendered.objects}

\* The tags of the rendered collection whose target is no object of it.
DanglingTagPlaces ==
    {k \in DOMAIN Tags(rendered.objects) :
        Tags(rendered.objects)[k].objectHash \notin ObjectHashes}

\* C12: every object has a layout entry whatever its references name; an
\* identifier that is no object of the collection has none; every drawn
\* edge has both ends among the merged positions; a tag whose target is no
\* object of the collection stands in the default column, in the row of its
\* place among the tags, and no edge leaves it.
C12_DanglingOmitted ==
    rendered.mounted =>
        /\ \A h \in ObjectHashes : MapHas(rendered.defaultPositions, h)
        /\ \A h \in Universe(rendered.objects, rendered.selectedHash) :
               h \notin ObjectHashes => ~MapHas(rendered.defaultPositions, h)
        /\ \A i \in DOMAIN rendered.edges :
               /\ MapHas(rendered.nodePositions, rendered.edges[i].from)
               /\ MapHas(rendered.nodePositions, rendered.edges[i].to)
        /\ \A k \in DanglingTagPlaces :
               LET tag == Tags(rendered.objects)[k]
               IN  /\ MapHas(rendered.defaultPositions, tag.hash)
                   /\ LayoutAt(tag.hash).x = COL_START_OBJECTS
                   /\ LayoutAt(tag.hash).y
                          = (k - 1) * ROW_HEIGHT + NODE_TO_LABELS_GAP
                   /\ \A i \in DOMAIN rendered.edges :
                          rendered.edges[i].from # tag.hash

\* The second tag of a collection names a target that is no object of it
\* and stands in the default column, while an edge of another node is drawn.
C12_Witness ==
    /\ rendered.mounted
    /\ 2 \in DanglingTagPlaces
    /\ LayoutAt(Tags(rendered.objects)[2].hash).x = COL_START_OBJECTS
    /\ LayoutAt(Tags(rendered.objects)[2].hash).y = ROW_HEIGHT + NODE_TO_LABELS_GAP
    /\ rendered.edges # <<>>

(***************************************************************************)
(* Properties of the interaction controller (Spec).                        *)
(***************************************************************************)
\* C13: panOffset changes only in a mousemove handled while isPanning is
\* set and no node is dragged; every other step leaves it as it is.
C13_PanOnlyWhilePanning ==
    [][panOffset' # panOffset =>
           /\ moves' = moves + 1
           /\ isPanning /\ rendered.isPanning
           /\ draggedNodeHash = "" /\ rendered.draggedNodeHash = ""]_vars

\* A pan has moved panOffset, and a selection, a filter change and a
\* resize have happened with panOffset away from its start.
C13_Witness ==
    /\ panOffset # [x |-> PAN_START, y |-> PAN_START]
    /\ selectedObject # ""
    /\ toggles > 0
    /\ containerSize.width > 0

\* C14: a mouseup or a mouseleave, in whatever state, leaves neither
\* isPanning nor a dragged node set, in the state and in the render that
\* follows, and leaves dragOverrides and panOffset as they were.
C14_UpAndLeaveToIdle ==
    [][(MouseUp \/ MouseLeave) =>
           /\ ~isPanning' /\ draggedNodeHash' = ""
           /\ ~rendered'.isPanning /\ rendered'.draggedNodeHash = ""
           /\ dragOverrides' = dragOverrides
           /\ panOffset' = panOffset
           /\ rendered'.dragOverrides = dragOverrides
           /\ rendered'.panOffset = panOffset]_vars

\* A mouseup has ended a drag that moved a node: the controller is idle and
\* the override of the drag is in place.
C14_Witness ==
    /\ gesture.phase = "up"
    /\ gesture.node # ""
    /\ gesture.changed
    /\ ~isPanning /\ draggedNodeHash = ""
    /\ MapHas(dragOverrides, gesture.node)
    /\ MapHas(rendered.dragOverrides, gesture.node)

\* C15: the layout runs again only in a step that hands ObjectGraph a new
\* objects array, which only a filter change does; a mousedown, mousemove,
\* mouseup, mouseleave, click, selection change, resize or re-render keeps
\* the layout of the render before.
C15_LayoutOnlyOnNewCollection ==
    [][rendered'.layoutRuns # rendered.layoutRuns =>
           /\ toggles' = toggles + 1
           /\ visibleTypes' # visibleTypes
           /\ rendered'.objectsRef # rendered.objectsRef]_vars

\* The layout has run once at the mount and once for a filter change,
\* while mousemoves, a selection and a resize have happened.
C15_Witness ==
    /\ toggles = 1
    /\ rendered.layoutRuns = 2
    /\ moves = MaxMoves
    /\ selectedObject # ""
    /\ containerSize.width > 0
    /\ dragOverrides # <<>>

\* C16: an object of the data source whose kind is none of commit, tree,
\* blob, tag has a node among the merged positions, drawn in the colour of
\* a blob.
C16_UnknownKindDrawn ==
    rendered.mounted =>
        \A i \in DOMAIN mockObjects :
            mockObjects[i].type \notin AllTypes =>
                /\ MapHas(rendered.defaultPositions, mockObjects[i].hash)
                /\ MapHas(rendered.nodePositions, mockObjects[i].hash)
                /\ NodeColor(EffectiveAt(mockObjects[i].hash).type) = NodeColor("blob")

\* C17: a mousedown hit-tests the pointer, shifted by panOffset, against the
\* merged positions, the first match in map order within NODE_RADIUS
\* winning; on a hit the controller drags that node, otherwise it pans; in
\* both cases hasMoved is reset and the pointer is the last position.
C17_DownHitOrPan ==
    [][HandleMouseDown =>
           LET hit == HitTest(rendered.nodePositions,
                              mouse.x - rendered.panOffset.x,
                              mouse.y - rendered.panOffset.y)
           IN  /\ hit # "" =>
                      /\ draggedNodeHash' = hit
                      /\ MoveBranch(draggedNodeHash', isPanning') = "drag"
               /\ hit = "" => MoveBranch(draggedNodeHash', isPanning') = "pan"
               /\ hasMoved' = FALSE
               /\ lastMousePos' = mouse]_vars

\* The merged positions of the state: the layout with dragOverrides on top.
CurrentEffective == NodePositions(rendered.defaultPositions, dragOverrides)

\* What a mousemove to mouse' does to dragOverrides when the node id is
\* dragged: the entry of id becomes its current merged position plus the
\* delta from lastMousePos, every other entry stays.
DragStepOk(id) ==
    IF MapHas(CurrentEffective, id)
    THEN /\ MapKeys(dragOverrides') = MapKeys(dragOverrides) \cup {id}
         /\ MapGet(dragOverrides', id).x
                = MapGet(CurrentEffective, id).x + (mouse'.x - lastMousePos.x)
         /\ MapGet(dragOverrides', id).y
                = MapGet(CurrentEffective, id).y + (mouse'.y - lastMousePos.y)
         /\ \A h \in MapKeys(dragOverrides) \ {id} :
                MapGet(dragOverrides', h) = MapGet(dragOverrides, h)
    ELSE dragOverrides' = dragOverrides

\* C18: a mousemove with delta d from the last recorded pointer position:
\* with a node dragged, its override becomes its current merged position
\* plus d, the other overrides and panOffset stay; while panning, d is
\* added to panOffset and dragOverrides stays; while idle both stay; in
\* all three the pointer becomes the last recorded position.
C18_MoveStep ==
    [][moves' = moves + 1 =>
           LET branch == MoveBranch(draggedNodeHash, isPanning)
           IN  /\ branch = "drag" =>
                      DragStepOk(draggedNodeHash) /\ panOffset' = panOffset
               /\ branch = "pan" =>
                      /\ panOffset'.x = panOffset.x + (mouse'.x - lastMousePos.x)
                      /\ panOffset'.y = panOffset.y + (mouse'.y - lastMousePos.y)
                      /\ dragOverrides' = dragOverrides
               /\ branch = "none" =>
                      panOffset' = panOffset /\ dragOverrides' = dragOverrides
               /\ lastMousePos' = mouse']_vars

\* C19: isPanning and a dragged node are never set at the same time.
C19_OneControllerState ==
    /\ ~(isPanning /\ draggedNodeHash # "")
    /\ ~(rendered.isPanning /\ rendered.draggedNodeHash # "")

(***************************************************************************)
(* Properties of the two traversals (SpecGraph).                           *)
(***************************************************************************)
\* The number of entries of the trees of a collection.
RECURSIVE EntryCount(_, _)
EntryCount(objects, i) ==
    IF i > Len(objects) THEN 0
    ELSE Len(objects[i].entries) + EntryCount(objects, i + 1)

\* The depth pass run for at most fuel iterations: whether the queue got
\* empty, and the identifiers whose entries were queued, in order.
RECURSIVE DepthRun(_, _, _, _)
DepthRun(objects, st, log, fuel) ==
    IF st.queue = <<>> THEN [done |-> TRUE, log |-> log]
    ELSE IF fuel = 0 THEN [done |-> FALSE, log |-> log]
    ELSE DepthRun(objects, DepthStep(objects, st),
                  IF Head(st.queue).hash \in st.visited
                  THEN log
                  ELSE Append(log, Head(st.queue).hash),
                  fuel - 1)

\* The highlight pass run for at most fuel iterations: whether the index
\* reached the end of the queue, and the queue.
RECURSIVE RelatedRun(_, _, _)
RelatedRun(objects, st, fuel) ==
    IF st.index >= Len(st.queue) THEN [done |-> TRUE, log |-> st.queue]
    ELSE IF fuel = 0 THEN [done |-> FALSE, log |-> st.queue]
    ELSE RelatedRun(objects, RelatedStep(objects, st), fuel - 1)

NoRepeat(s) == \A i, j \in DOMAIN s : s[i] = s[j] => i = j

DepthRunOfRender ==
    DepthRun(rendered.objects, DepthInit(rendered.objects), <<>>,
             Len(Commits(rendered.objects)) + EntryCount(rendered.objects, 1))

RelatedRunOfRender ==
    RelatedRun(rendered.objects, RelatedInit(rendered.selectedHash),
               Cardinality(Universe(rendered.objects, rendered.selectedHash)))

\* C20: the depth pass ends within one iteration for each commit and each
\* entry of a tree, the highlight pass within one iteration for each
\* identifier the collection names, and neither takes the entries of an
\* identifier twice, whatever the trees refer to.
C20_TraversalsEnd ==
    rendered.mounted =>
        /\ DepthRunOfRender.done
        /\ NoRepeat(DepthRunOfRender.log)
        /\ rendered.selectedHash # "" =>
               /\ RelatedRunOfRender.done
               /\ NoRepeat(RelatedRunOfRender.log)

\* A commit is selected whose tree has itself and an ancestor among the
\* entries of its subtree; both passes have ended after taking the entries
\* of both trees.
C20_Witness ==
    /\ rendered.mounted
    /\ IsObjectOfType(rendered.objects, rendered.selectedHash, "commit")
    /\ \E t, u \in ObjectHashes :
           /\ t # u
           /\ ObjectMapGet(rendered.objects, rendered.selectedHash).tree = t
           /\ IsObjectOfType(rendered.objects, t, "tree")
           /\ IsObjectOfType(rendered.objects, u, "tree")
           /\ ContentEdge(rendered.objects, t, t)
           /\ ContentEdge(rendered.objects, t, u)
           /\ ContentEdge(rendered.objects, u, t)
           /\ DepthRunOfRender.done
           /\ DepthRunOfRender.log = <<t, u>>
           /\ RelatedRunOfRender.done
           /\ {t, u} \subseteq rendered.relatedHashes

(***************************************************************************)
(* Properties of the coordinates of the layout (SpecGraph, SpecDup).       *)
(***************************************************************************)
\* A set that holds the tree of every commit and, with a tree, its entries.
CommitClosed(S) ==
    /\ DepthRoots \subseteq S
    /\ \A u \in S : \A v \in Universe(rendered.objects, "") :
           (IsObjectOfType(rendered.objects, u, "tree")
                /\ ContentEdge(rendered.objects, u, v)) => v \in S

\* What a commit reaches through commit -> tree -> entries.
CommitReached ==
    {v \in Universe(rendered.objects, "") :
        \A S \in SUBSET Universe(rendered.objects, "") : CommitClosed(S) => v \in S}

\* The trees and blobs of the layout that no commit reaches.
Orphans(type) ==
    {i \in DOMAIN rendered.defaultPositions :
        /\ rendered.defaultPositions[i].type = type
        /\ rendered.defaultPositions[i].hash \notin CommitReached}

\* C21 as claimed: a tree or blob that no commit reaches has depth 0.
C21_OrphanDepthZero ==
    \A i \in Orphans("tree") \cup Orphans("blob") :
        rendered.defaultPositions[i].depth = 0

\* C21 amended: a tree that no commit reaches has depth 0 and a blob that
\* no commit reaches has depth 1; each stands in the column of its depth.
C21_OrphanDefaultDepth ==
    /\ \A i \in Orphans("tree") :
           /\ rendered.defaultPositions[i].depth = 0
           /\ rendered.defaultPositions[i].x = COL_START_OBJECTS
    /\ \A i \in Orphans("blob") :
           /\ rendered.defaultPositions[i].depth = 1
           /\ rendered.defaultPositions[i].x = COL_START_OBJECTS + DEPTH_INDENT

\* A collection with a commit whose tree is laid out, a tree no commit
\* reaches and a blob no commit reaches.
C21_Witness ==
    /\ Orphans("tree") # {}
    /\ Orphans("blob") # {}
    /\ \E r \in DepthRoots : MapHas(rendered.defaultPositions, r)

\* The number of objects of the kind of the object at place i that stand
\* before it in the rendered collection, and the number of its trees.
KindIndex(i) ==
    Cardinality({j \in DOMAIN rendered.objects :
                    j < i /\ rendered.objects[j].type = rendered.objects[i].type})

TreeCount ==
    Cardinality({j \in DOMAIN rendered.objects : rendered.objects[j].type = "tree"})

\* The row of the object at place i counted from the first row of the
\* layout: its index within its kind, for a blob after all the trees.
RowOf(i) ==
    IF rendered.objects[i].type = "blob" THEN TreeCount + KindIndex(i)
    ELSE KindIndex(i)

RowKinds == {"commit", "tree", "blob"}

RowPlaces == {i \in DOMAIN rendered.objects : rendered.objects[i].type \in RowKinds}

\* Blobs stand below trees and the nodes of one kind in distinct rows.
RowsApart ==
    \A i, j \in RowPlaces :
        LET pi == LayoutAt(rendered.objects[i].hash)
            pj == LayoutAt(rendered.objects[j].hash)
        IN  /\ (pi.type = "blob" /\ pj.type = "tree") => pi.y > pj.y
            /\ (pi.type = pj.type /\ i # j) => pi.y # pj.y

\* C22 as claimed: the base y of a commit, tree or blob is its row times
\* ROW_HEIGHT.
C22_RowTimesHeight ==
    rendered.mounted =>
        /\ \A i \in RowPlaces :
               LayoutAt(rendered.objects[i].hash).y = RowOf(i) * ROW_HEIGHT
        /\ RowsApart

\* C22 amended: the base y of a commit, tree or blob is its row times
\* ROW_HEIGHT plus NODE_TO_LABELS_GAP.
C22_RowTimesHeightPlusGap ==
    rendered.mounted =>
        /\ \A i \in RowPlaces :
               /\ MapHas(rendered.defaultPositions, rendered.objects[i].hash)
               /\ LayoutAt(rendered.objects[i].hash).type = rendered.objects[i].type
               /\ LayoutAt(rendered.objects[i].hash).y
                      = RowOf(i) * ROW_HEIGHT + NODE_TO_LABELS_GAP
        /\ RowsApart

\* Two trees and a blob were laid out, the blob before the second tree in
\* the collection and two rows below the first in the layout.
C22_Witness ==
    /\ rendered.mounted
    /\ Len(rendered.objects) = 3
    /\ rendered.objects[1].type = "tree"
    /\ rendered.objects[2].type = "blob"
    /\ rendered.objects[3].type = "tree"
    /\ LayoutAt(rendered.objects[2].hash).y
           = LayoutAt(rendered.objects[1].hash).y + 2 * ROW_HEIGHT

TagPlaces == {i \in DOMAIN rendered.objects : rendered.objects[i].type = "tag"}

\* The target of the tag at place i is a commit, tree or blob of the
\* collection or a tag that stands before it.
TargetPlaced(i) ==
    \E j \in DOMAIN rendered.objects :
        /\ rendered.objects[j].hash = rendered.objects[i].objectHash
        /\ \/ rendered.objects[j].type \in RowKinds
           \/ rendered.objects[j].type = "tag" /\ j < i

AnchoredAt(i) ==
    LET pos == LayoutAt(rendered.objects[i].hash)
        target == LayoutAt(rendered.objects[i].objectHash)
    IN  /\ MapHas(rendered.defaultPositions, rendered.objects[i].objectHash)
        /\ pos.x = target.x - TAG_OFFSET_X
        /\ pos.y = target.y

DefaultColumnAt(i) ==
    LET pos == LayoutAt(rendered.objects[i].hash)
    IN  /\ pos.x = COL_START_OBJECTS
        /\ pos.y = KindIndex(i) * ROW_HEIGHT + NODE_TO_LABELS_GAP

\* C23: a tag whose target is a commit, tree or blob of the collection or
\* an earlier tag stands TAG_OFFSET_X left of the base position of the
\* target, in its row; every other tag (target absent, the tag itself or a
\* later tag) stands in the default column in the row of its index among
\* the tags, and not at an anchored position.
C23_TagAnchoring ==
    rendered.mounted =>
        \A i \in TagPlaces :
            /\ MapHas(rendered.defaultPositions, rendered.objects[i].hash)
            /\ IF TargetPlaced(i)
               THEN AnchoredAt(i) /\ ~DefaultColumnAt(i)
               ELSE DefaultColumnAt(i) /\ ~AnchoredAt(i)

\* Three tags: the first names the second, which names itself, and both
\* stand in the default column; the third names the second and is anchored
\* to it.
C23_Witness ==
    /\ rendered.mounted
    /\ TagPlaces = {1, 2, 3}
    /\ \A i \in TagPlaces : rendered.objects[i].objectHash = rendered.objects[2].hash
    /\ DefaultColumnAt(1)
    /\ DefaultColumnAt(2)
    /\ AnchoredAt(3)

(***************************************************************************)
(* Properties of the render effect (SpecFrame, Spec).                      *)
(***************************************************************************)
\* The viewport of the last pass has no size.
ZeroViewport ==
    \/ OrElse(containerSize.width, surface.clientWidth) = 0
    \/ OrElse(containerSize.height, surface.clientHeight) = 0

\* C24: when the canvas or its context is missing or the viewport has no
\* size, the pass issues no drawing call and does not resize the canvas.
C24_PassSkipped ==
    (~surface.canvas \/ ~surface.context \/ ZeroViewport) =>
        /\ rendered.frame.calls = <<>>
        /\ ~rendered.frame.resized

\* The place of a layer in the order back to front; the icon of a node is
\* painted on its disc.
LayerRank(layer) ==
    CASE layer = "background" -> 0
      [] layer = "edge" -> 1
      [] layer \in {"disc", "icon"} -> 2
      [] layer = "label" -> 3
      [] layer = "header" -> 4

\* C25: in every frame no call of an earlier layer comes after a call of a
\* later layer, the layers being the background, the edges, the node
\* discs, the node labels and the column headers.
C25_BackToFront ==
    \A i, j \in DOMAIN rendered.frame.calls :
        i < j => LayerRank(rendered.frame.calls[i].layer)
                     <= LayerRank(rendered.frame.calls[j].layer)

(***************************************************************************)
(* Properties of whole gestures under pending renders (Spec).              *)
(***************************************************************************)
\* C26: at the end of a pan, however the mousemoves and the renders were
\* interleaved, panOffset is the pan offset at the mousedown plus the way
\* of the pointer since the mousedown.
C26_PanTracksPointer ==
    (gesture.phase = "up" /\ gesture.panning) =>
        /\ panOffset.x = gesture.panX + (mouse.x - gesture.downX)
        /\ panOffset.y = gesture.panY + (mouse.y - gesture.downY)

\* C27: (a) at the end of a drag, however the mousemoves and the renders
\* were interleaved, the override of the node is its merged position at
\* the mousedown plus the way of the pointer since the mousedown; (b) a
\* mousedown on a node that has an override starts the drag from the
\* override, not from the layout.
C27_DragTracksPointer ==
    /\ (gesture.phase = "up" /\ gesture.node # "" /\ gesture.nmoves > 0) =>
           /\ MapHas(dragOverrides, gesture.node)
           /\ MapGet(dragOverrides, gesture.node).x
                  = gesture.startX + (mouse.x - gesture.downX)
           /\ MapGet(dragOverrides, gesture.node).y
                  = gesture.startY + (mouse.y - gesture.downY)
    /\ (/\ gesture.phase = "down"
        /\ gesture.node # ""
        /\ gesture.nmoves = 0
        /\ MapHas(dragOverrides, gesture.node)) =>
           /\ gesture.startX = MapGet(dragOverrides, gesture.node).x
           /\ gesture.startY = MapGet(dragOverrides, gesture.node).y

\* A drag has ended whose second mousemove was handled before the first
\* was rendered; the node stands where the pointer took it, off the place
\* it had at the mousedown.
C27_Witness ==
    /\ gesture.phase = "up"
    /\ gesture.node # ""
    /\ gesture.nmoves = 2
    /\ ~gesture.inStep
    /\ mouse.x # gesture.downX
    /\ MapHas(dragOverrides, gesture.node)
    /\ MapGet(dragOverrides, gesture.node).x
           = gesture.startX + (mouse.x - gesture.downX)

(***************************************************************************)
(* Properties of the hit tests (SpecPick).                                 *)
(***************************************************************************)
\* The disc calls of the last frame whose disc holds the point p of the
\* canvas, and the node of the last of them: the node drawn on top at p.
DiscsAt(p) ==
    {i \in DOMAIN rendered.frame.calls :
        /\ rendered.frame.calls[i].layer = "disc"
        /\ Hits(EffectiveAt(rendered.frame.calls[i].hash),
                p.x - rendered.panOffset.x, p.y - rendered.panOffset.y)}

TopNodeAt(p) ==
    IF DiscsAt(p) = {} THEN ""
    ELSE rendered.frame.calls[CHOOSE i \in DiscsAt(p) :
                                  \A j \in DiscsAt(p) : j <= i].hash

\* C28: a mousedown picks the node drawn on top at the pointer, and a
\* click that selects a node selects the node drawn on top at the pointer.
C28_PicksTopmost ==
    /\ (gesture.phase = "down" /\ gesture.nmoves = 0) =>
           gesture.node = TopNodeAt(mouse)
    /\ (gesture.phase = "click" /\ ~hasMoved) => fired = TopNodeAt(mouse)

\* Two entries of the layout stand at one place.
SamePlace(i, j) ==
    /\ rendered.defaultPositions[i].x = rendered.defaultPositions[j].x
    /\ rendered.defaultPositions[i].y = rendered.defaultPositions[j].y

\* C29: no two entries of the layout stand at one place.
C29_NoSharedPosition ==
    \A i, j \in DOMAIN rendered.defaultPositions : i # j => ~SamePlace(i, j)

\* No two entries of the layout that are commits, trees or blobs stand at
\* one place.
NoSharedPositionButTags ==
    \A i, j \in DOMAIN rendered.defaultPositions :
        (/\ i # j
         /\ rendered.defaultPositions[i].type \in RowKinds
         /\ rendered.defaultPositions[j].type \in RowKinds) => ~SamePlace(i, j)

\* A commit whose tree is a blob, and an orphan tree: the tree and the
\* blob stand in one column, the commit in another, all at different
\* places.
ThreeKindsApart ==
    /\ Len(rendered.defaultPositions) = 3
    /\ \E i, j, k \in DOMAIN rendered.defaultPositions :
           /\ rendered.defaultPositions[i].type = "commit"
           /\ rendered.defaultPositions[j].type = "tree"
           /\ rendered.defaultPositions[k].type = "blob"
           /\ rendered.defaultPositions[j].x = rendered.defaultPositions[k].x
           /\ rendered.defaultPositions[j].y # rendered.defaultPositions[k].y

\* The place in the rendered collection of the last object with the hash h.
LastPlace(h) ==
    CHOOSE i \in DOMAIN rendered.objects :
        /\ rendered.objects[i].hash = h
        /\ \A j \in DOMAIN rendered.objects :
               j > i => rendered.objects[j].hash # h

\* C30: every entry of the layout has the kind of the last object of the
\* collection that carries its identifier and, for a commit, tree or blob,
\* the row of that object.
C30_LayoutFollowsIndex ==
    \A k \in DOMAIN rendered.defaultPositions :
        LET pos == rendered.defaultPositions[k]
            obj == ObjectMapGet(rendered.objects, pos.hash)
        IN  /\ ObjectMapHas(rendered.objects, pos.hash)
            /\ pos.type = obj.type
            /\ obj.type \in RowKinds =>
                   pos.y = RowOf(LastPlace(pos.hash)) * ROW_HEIGHT
                               + NODE_TO_LABELS_GAP

====
